---- MODULE Spec2Model ----
(***************************************************************************)
(* A model of RoomMember (src/src/models/room_member.rs): the state of one *)
(* room participant, built by RoomMember::new from a membership event and  *)
(* mutated in place by update_member and update_power.                     *)
(*                                                                         *)
(* Option<T> is modelled as a sequence of length at most one: None is <<>> *)
(* and Some(x) is <<x>>.  The power values are js_int::Int; the values     *)
(* drawn here keep power * 100 far inside its range, so the arithmetic is  *)
(* plain integer arithmetic with Rust's truncating division.               *)
(***************************************************************************)
EXTENDS Integers, Sequences, FiniteSets

VARIABLES user_id, room_id, typing, user, power_level, power_level_norm,
          membership, name, events,
          op, arg, ret, old, created, applied, panicked

vars == <<user_id, room_id, typing, user, power_level, power_level_norm,
          membership, name, events, op, arg, ret, old, created, applied,
          panicked>>

(***************************************************************************)
(* Bounds and input sets.                                                  *)
(***************************************************************************)
MaxEvents == 2

None == <<>>

Some(x) == <<x>>

UserIds == {"@a:hs", "@b:hs"}

RoomIds == {None, Some("!r:hs")}

MembershipState == {"Invite", "Join", "Leave", "Ban", "Knock"}

DefaultVals == {-1, 0, 50}

OverrideVals == {-1, 3, 100}

\* Membership events.  Sender, room id and state key each take two values and
\* every pair of them occurs together in some event (the state key names the
\* sender exactly in the events that carry no room id).
MemberEvents ==
    {e \in [type : {"m.room.member"}, sender : UserIds, room_id : RoomIds,
            content : [membership : MembershipState], state_key : UserIds] :
        (e.state_key = e.sender) = (e.room_id = None)}

\* Power-levels events: a default and a map from some of the users to their
\* explicit power.
PowerLevelsEventContents ==
    UNION {[users_default : DefaultVals, users : [D -> OverrideVals]] :
           D \in SUBSET UserIds}

PowerLevelsEvents ==
    [type : {"m.room.power_levels"}, content : PowerLevelsEventContents]

(***************************************************************************)
(* Pure helpers.                                                           *)
(***************************************************************************)
Abs(a) == IF a < 0 THEN -a ELSE a

\* Division rounding toward minus infinity.
FloorDiv(a, b) == a \div b

\* Rust's `/` on integers: the quotient truncated toward zero.
IntDiv(a, b) ==
    LET q == Abs(a) \div Abs(b)
    IN  IF (a < 0) = (b < 0) THEN q ELSE -q

\* Event::RoomMember(event.clone())
EventRoomMember(event) == [variant |-> "RoomMember", event |-> event]

\* The wrapper a power-levels event has in the Event collection.
EventRoomPowerLevels(event) == [variant |-> "RoomPowerLevels", event |-> event]

\* User::new(event): the profile, opaque here, made from the event.
UserNew(event) == [profile_of |-> event]

\* The fold keeping the smaller value.
RECURSIVE FoldMin(_, _, _)
FoldMin(users, keys, max_power) ==
    IF keys = {} THEN max_power
    ELSE LET k == CHOOSE x \in keys : TRUE
             power == users[k]
         IN  FoldMin(users, keys \ {k},
                     IF power <= max_power THEN power ELSE max_power)

\* The fold of update_power over users.values(), starting at users_default.
RECURSIVE FoldMax(_, _, _)
FoldMax(users, keys, max_power) ==
    IF keys = {} THEN max_power
    ELSE LET k == CHOOSE x \in keys : TRUE
             power == users[k]
         IN  FoldMax(users, keys \ {k},
                     IF power >= max_power THEN power ELSE max_power)

\* The fold started at zero instead of users_default.
MaxPowerFromZero(event) ==
    FoldMax(event.content.users, DOMAIN event.content.users, 0)

\* max_power of update_power.
MaxPower(event) ==
    FoldMax(event.content.users, DOMAIN event.content.users,
            event.content.users_default)

\* The override of whoever comes first in the map instead of this member's.
UserPowerAnyKey(self_user_id, event) ==
    LET users == event.content.users
    IN  IF DOMAIN users # {}
        THEN users[CHOOSE k \in DOMAIN users : TRUE]
        ELSE event.content.users_default

\* The value update_power assigns to power_level.
UserPower(self_user_id, event) ==
    IF self_user_id \in DOMAIN event.content.users
    THEN event.content.users[self_user_id]
    ELSE event.content.users_default

\* The `changed` of update_power, computed before the assignment.
PowerChanged(self_power_level, user_power) == self_power_level = Some(user_power)

\* The normalised power cleared when it cannot be computed.
NormAfterCleared(self_norm, power, max_power) ==
    IF max_power > 0 THEN Some(IntDiv(power * 100, max_power)) ELSE None

\* The guard only excluding a zero divisor.
NormAfterNonZero(self_norm, power, max_power) ==
    IF max_power # 0 THEN Some(IntDiv(power * 100, max_power)) ELSE self_norm

\* power_level_norm after the guarded normalisation.
NormAfter(self_norm, power, max_power) ==
    IF max_power > 0 THEN Some(IntDiv(power * 100, max_power)) ELSE self_norm

\* The comparison the name `changed` suggests.
MemberDiffers(self_membership, event) == self_membership # event.content.membership

\* The `changed` of update_member, computed before the assignment.
MemberChanged(self_membership, event) == self_membership = event.content.membership

\* A ban that later events cannot lift.
MemberAssignedUnlessBanned(self_membership, event) ==
    IF self_membership = "Ban" THEN self_membership ELSE event.content.membership

\* The membership update_member assigns.
MemberAssigned(self_membership, event) == event.content.membership

\* The entity as one record; `old` holds it as it was before the last call
\* (after RoomMember::new, the entity just built).
Self ==
    [user_id |-> user_id, room_id |-> room_id, typing |-> typing, user |-> user,
     power_level |-> power_level, power_level_norm |-> power_level_norm,
     membership |-> membership, name |-> name, events |-> events]

\* The display name taken from the sender instead of the state key.
RoomMemberNewNamedBySender(event) ==
    [user_id |-> event.sender, room_id |-> event.room_id, typing |-> None,
     user |-> UserNew(event), power_level |-> None, power_level_norm |-> None,
     membership |-> event.content.membership, name |-> event.sender,
     events |-> <<EventRoomMember(event)>>]

\* The entity built with an empty event list.
RoomMemberNewNoEvents(event) ==
    [user_id |-> event.sender, room_id |-> event.room_id, typing |-> None,
     user |-> UserNew(event), power_level |-> None, power_level_norm |-> None,
     membership |-> event.content.membership, name |-> event.state_key,
     events |-> <<>>]

\* RoomMember::new
RoomMemberNew(event) ==
    [user_id |-> event.sender, room_id |-> event.room_id, typing |-> None,
     user |-> UserNew(event), power_level |-> None, power_level_norm |-> None,
     membership |-> event.content.membership, name |-> event.state_key,
     events |-> <<EventRoomMember(event)>>]

\* update_member also adopting the sender and room id of the event.
UpdateMemberAdoptingSender(self, event) ==
    [self EXCEPT !.membership = MemberAssigned(self.membership, event),
                 !.user_id = event.sender,
                 !.room_id = event.room_id]

\* update_member also refreshing the display name from the state key.
UpdateMemberRenaming(self, event) ==
    [self EXCEPT !.membership = MemberAssigned(self.membership, event),
                 !.name = event.state_key]

\* update_member also pushing the event onto the event list.
UpdateMemberRecording(self, event) ==
    [self EXCEPT !.membership = MemberAssigned(self.membership, event),
                 !.events = Append(self.events, EventRoomMember(event))]

\* update_member also dropping the power of a participant who left.
UpdateMemberClearingPower(self, event) ==
    [self EXCEPT !.membership = MemberAssigned(self.membership, event),
                 !.power_level =
                     IF event.content.membership \in {"Leave", "Ban"}
                     THEN None ELSE self.power_level]

\* update_member: the entity after the call.
UpdateMember(self, event) ==
    [self EXCEPT !.membership = MemberAssigned(self.membership, event)]

\* update_member: the value returned.
UpdateMemberRet(self, event) == MemberChanged(self.membership, event)

\* update_power, first half: power_level assigned from the override or the
\* default.
AssignPower(self, event) ==
    [self EXCEPT !.power_level = Some(UserPower(self.user_id, event))]

\* The guard letting a zero max_power through.
NormalizesNonNegative(max_power) == max_power >= 0

\* The guard of the normalisation.
Normalizes(max_power) == max_power > 0

\* update_power panics when the normalisation it enters unwraps an absent
\* power_level or divides by zero.
UpdatePowerPanics(self, event) ==
    LET max_power == MaxPower(event)
        assigned == AssignPower(self, event)
    IN  Normalizes(max_power) /\ (assigned.power_level = None \/ max_power = 0)

\* update_power: the entity after the call (after a panic, the entity as the
\* unwinding leaves it).
UpdatePower(self, event) ==
    LET max_power == MaxPower(event)
        assigned == AssignPower(self, event)
    IN  IF UpdatePowerPanics(self, event) THEN assigned
        ELSE [assigned EXCEPT !.power_level_norm =
                  NormAfter(assigned.power_level_norm,
                            assigned.power_level[1], max_power)]

\* update_power: the value returned.
UpdatePowerRet(self, event) ==
    PowerChanged(self.power_level, UserPower(self.user_id, event))

(***************************************************************************)
(* The state machine.  op, arg, ret and old record the last call, created  *)
(* the constructing event and applied the events handed to the updates.    *)
(***************************************************************************)
\* The entity's fields take the values of the record m.
Store(m) ==
    /\ user_id' = m.user_id
    /\ room_id' = m.room_id
    /\ typing' = m.typing
    /\ user' = m.user
    /\ power_level' = m.power_level
    /\ power_level_norm' = m.power_level_norm
    /\ membership' = m.membership
    /\ name' = m.name
    /\ events' = m.events

Init ==
    \E event \in MemberEvents :
        LET m == RoomMemberNew(event)
        IN  /\ user_id = m.user_id
            /\ room_id = m.room_id
            /\ typing = m.typing
            /\ user = m.user
            /\ power_level = m.power_level
            /\ power_level_norm = m.power_level_norm
            /\ membership = m.membership
            /\ name = m.name
            /\ events = m.events
            /\ op = "new"
            /\ arg = event
            /\ ret = None
            /\ old = m
            /\ created = event
            /\ applied = <<>>
            /\ panicked = FALSE

update_member ==
    /\ ~panicked
    /\ Len(applied) < MaxEvents
    /\ \E event \in MemberEvents :
        /\ Store(UpdateMember(Self, event))
        /\ ret' = Some(UpdateMemberRet(Self, event))
        /\ op' = "update_member"
        /\ arg' = event
        /\ old' = Self
        /\ applied' = Append(applied, EventRoomMember(event))
        /\ UNCHANGED <<created, panicked>>

update_power ==
    /\ ~panicked
    /\ Len(applied) < MaxEvents
    /\ \E event \in PowerLevelsEvents :
        /\ Store(UpdatePower(Self, event))
        /\ panicked' = UpdatePowerPanics(Self, event)
        /\ ret' = IF UpdatePowerPanics(Self, event) THEN None
                  ELSE Some(UpdatePowerRet(Self, event))
        /\ op' = "update_power"
        /\ arg' = event
        /\ old' = Self
        /\ applied' = Append(applied, EventRoomPowerLevels(event))
        /\ UNCHANGED created

Next == update_member \/ update_power

Spec == Init /\ [][Next]_vars

(***************************************************************************)
(* The same entity without the record of its history: any number of        *)
(* events, the bookkeeping variables left as Init set them.                *)
(***************************************************************************)
member_event ==
    /\ ~panicked
    /\ \E event \in MemberEvents : Store(UpdateMember(Self, event))
    /\ UNCHANGED <<op, arg, ret, old, created, applied, panicked>>

power_levels_event ==
    /\ ~panicked
    /\ \E event \in PowerLevelsEvents :
        /\ Store(UpdatePower(Self, event))
        /\ panicked' = UpdatePowerPanics(Self, event)
    /\ UNCHANGED <<op, arg, ret, old, created, applied>>

NextEntity == member_event \/ power_levels_event

SpecEntity == Init /\ [][NextEntity]_vars

(***************************************************************************)
(* What the properties below speak of, stated from the event contents      *)
(* rather than through the operators of the model above.                   *)
(***************************************************************************)
\* The largest of the default and every explicit override of a configuration.
LargestPower(c) ==
    LET S == {c.users_default} \cup {c.users[k] : k \in DOMAIN c.users}
    IN  CHOOSE v \in S : \A w \in S : v >= w

\* The power a configuration gives a participant.
ConfiguredPower(c, id) ==
    IF id \in DOMAIN c.users THEN c.users[id] ELSE c.users_default

\* The positions of the power-levels events among the applied events.
PowerIdx == {i \in DOMAIN applied : applied[i].variant = "RoomPowerLevels"}

\* The most recently applied configuration (when PowerIdx is not empty).
LastPower ==
    applied[CHOOSE i \in PowerIdx : \A j \in PowerIdx : i >= j].event.content

\* The configuration of C4's example.
ExampleConfig == [users_default |-> 50, users |-> [k \in {"@a:hs"} |-> 100]]

\* C1: update_member returns true exactly when the declared membership
\* differs from the membership held immediately before the call.
C1_MemberChangedIffDiffers ==
    op = "update_member" =>
        ret = Some(old.membership # arg.content.membership)

\* C2: update_power returns true exactly when the power resolved for this
\* participant differs from the power_level held immediately before the call
\* (an absent prior value counts as different).
C2_PowerChangedIffDiffers ==
    op = "update_power" =>
        ret = Some(old.power_level # Some(ConfiguredPower(arg.content, user_id)))

\* C3: power_level is absent exactly when no update_power has been applied
\* since construction; otherwise it is the power the most recently applied
\* configuration gives this participant.
C3_PowerLevelIsLastResolved ==
    /\ (power_level = None) <=> (PowerIdx = {})
    /\ PowerIdx # {} => power_level = Some(ConfiguredPower(LastPower, user_id))

\* C3 witness: a second configuration replaced the power an earlier one gave,
\* the new power coming from an explicit override.
C3_Witness ==
    /\ op = "update_power"
    /\ Cardinality(PowerIdx) = 2
    /\ user_id \in DOMAIN arg.content.users
    /\ old.power_level # None
    /\ old.power_level # power_level
    /\ power_level = Some(arg.content.users[user_id])

\* C4: when the largest power of the configuration (default included) is
\* strictly positive, update_power sets power_level_norm to
\* power_level * 100 / max_power rounded toward zero: the integer q of the
\* sign of the dividend with |q| * max <= |power * 100| < (|q| + 1) * max.
\* With default 50 and overrides {a: 100}, a gets 100 and b gets 50.
C4_NormalizedTowardZero ==
    (op = "update_power" /\ LargestPower(arg.content) > 0) =>
        /\ power_level_norm # None
        /\ LET m == LargestPower(arg.content)
               n == ConfiguredPower(arg.content, user_id) * 100
               q == power_level_norm[1]
           IN  /\ Abs(q) * m <= Abs(n)
               /\ Abs(n) < (Abs(q) + 1) * m
               /\ q * n >= 0
        /\ (arg.content = ExampleConfig /\ user_id = "@a:hs")
               => power_level_norm = Some(100)
        /\ (arg.content = ExampleConfig /\ user_id = "@b:hs")
               => power_level_norm = Some(50)

\* C4 witness: the example, for the participant without an override.
C4_Witness ==
    /\ op = "update_power"
    /\ arg.content = ExampleConfig
    /\ user_id = "@b:hs"
    /\ power_level = Some(50)
    /\ power_level_norm = Some(50)

\* C5 as stated: with max_power > 0, power_level_norm is
\* floor(p * 100 / max_power) for every resolved power p, negative p included.
C5_NormIsFloor ==
    (op = "update_power" /\ LargestPower(arg.content) > 0) =>
        power_level_norm =
            Some((ConfiguredPower(arg.content, user_id) * 100)
                    \div LargestPower(arg.content))

\* C5 amended: with max_power > 0, power_level_norm is the floor of
\* p * 100 / max_power when p >= 0 and its ceiling when p < 0.
C5_NormIsFloorOrCeiling ==
    (op = "update_power" /\ LargestPower(arg.content) > 0) =>
        LET m == LargestPower(arg.content)
            p == ConfiguredPower(arg.content, user_id)
        IN  /\ p >= 0 => power_level_norm = Some((p * 100) \div m)
            /\ p < 0 => power_level_norm = Some(-((-(p * 100)) \div m))

\* C5 witness: a negative power whose quotient is not exact (-100 / 3).
C5_Witness ==
    /\ op = "update_power"
    /\ power_level = Some(-1)
    /\ LargestPower(arg.content) = 3
    /\ power_level_norm = Some(-33)

\* C6: in every reachable state power_level_norm is absent or an integer in
\* 0..100.
C6_NormInRange ==
    power_level_norm = None \/ power_level_norm[1] \in 0..100

\* C7: when the default and every override of the configuration are <= 0,
\* update_power leaves power_level_norm as it was before the call; applied
\* first after construction, default 0 without overrides leaves it absent.
C7_NormKeptWhenMaxNotPositive ==
    (/\ op = "update_power"
     /\ arg.content.users_default <= 0
     /\ \A k \in DOMAIN arg.content.users : arg.content.users[k] <= 0) =>
        /\ power_level_norm = old.power_level_norm
        /\ (Len(applied) = 1 /\ arg.content.users_default = 0
                /\ DOMAIN arg.content.users = {})
               => power_level_norm = None

\* C7 witness: a computed normalised power survives a configuration without
\* a positive power, which does reassign power_level.
C7_Witness ==
    /\ op = "update_power"
    /\ LargestPower(arg.content) <= 0
    /\ old.power_level_norm # None
    /\ power_level_norm = old.power_level_norm
    /\ power_level # old.power_level
    /\ power_level = Some(ConfiguredPower(arg.content, user_id))

\* C8 as stated: power_level_norm is present only if power_level is present
\* and the largest power of the most recently applied configuration is
\* strictly positive.
C8_NormOnlyIfLastMaxPositive ==
    power_level_norm # None =>
        /\ power_level # None
        /\ PowerIdx # {}
        /\ LargestPower(LastPower) > 0

\* C8 amended: power_level_norm is present only if power_level is present
\* and the largest power of some applied configuration, not necessarily the
\* most recent one, is strictly positive.
C8_NormOnlyIfSomeMaxPositive ==
    power_level_norm # None =>
        /\ power_level # None
        /\ \E i \in PowerIdx : LargestPower(applied[i].event.content) > 0

\* C8 witness: the normalised power is present although the most recently
\* applied configuration has no positive power.
C8_Witness ==
    /\ power_level_norm # None
    /\ power_level # None
    /\ PowerIdx # {}
    /\ LargestPower(LastPower) <= 0
    /\ \E i \in PowerIdx : LargestPower(applied[i].event.content) > 0

\* The positions of the membership events among the applied events.
MemberIdx == {i \in DOMAIN applied : applied[i].variant = "RoomMember"}

\* C9: update_member sets membership to the declared state whatever the
\* prior state, so membership is always the state declared by the most
\* recent membership event (the constructing one when no other was applied).
C9_MembershipIsDeclared ==
    /\ op = "update_member" => membership = arg.content.membership
    /\ membership =
           IF MemberIdx = {} THEN created.content.membership
           ELSE applied[CHOOSE i \in MemberIdx : \A j \in MemberIdx : i >= j]
                    .event.content.membership

\* C9 witness: a banned participant's event declaring Join is accepted, and
\* a later event declaring Join again leaves Join.
C9_Witness ==
    /\ op = "update_member"
    /\ Len(applied) = 2
    /\ created.content.membership = "Ban"
    /\ applied[1].variant = "RoomMember"
    /\ applied[1].event.content.membership = "Join"
    /\ old.membership = "Join"
    /\ arg.content.membership = "Join"
    /\ membership = "Join"

\* C10: events holds the constructing event followed by every applied
\* update_member / update_power event in application order.
C10_EventsRecordEveryEvent ==
    events = <<EventRoomMember(created)>> \o applied

\* C11: RoomMember::new(event) yields membership = the declared state,
\* user_id = the sender, room_id = the event's optional room id, name = the
\* state key, power_level, power_level_norm and typing absent, and events
\* holding exactly that one event.
C11_NewFromEvent ==
    op = "new" =>
        /\ membership = arg.content.membership
        /\ user_id = arg.sender
        /\ room_id = arg.room_id
        /\ name = arg.state_key
        /\ power_level = None
        /\ power_level_norm = None
        /\ typing = None
        /\ events = <<[variant |-> "RoomMember", event |-> arg]>>
        /\ Len(events) = 1

\* C11 witness: an entity built from an event with a room id whose state key
\* is not its sender.
C11_Witness ==
    /\ op = "new"
    /\ arg.sender = "@a:hs"
    /\ arg.state_key = "@b:hs"
    /\ arg.room_id = Some("!r:hs")
    /\ arg.content.membership = "Invite"
    /\ user_id = "@a:hs"
    /\ name = "@b:hs"
    /\ room_id = Some("!r:hs")
    /\ membership = "Invite"

\* C12: user_id and room_id keep the values RoomMember::new gave them
\* through every update_member and update_power, also when a membership
\* event's sender or room id differ from the constructing event's.
C12_IdentityImmutable ==
    /\ user_id = created.sender
    /\ room_id = created.room_id
    /\ op # "new" => (user_id = old.user_id /\ room_id = old.room_id)

\* C12 witness: two updates, the last one a membership event of another
\* sender and another room id, left user_id and room_id alone.
C12_Witness ==
    /\ op = "update_member"
    /\ Len(applied) = 2
    /\ applied[1].variant = "RoomPowerLevels"
    /\ arg.sender # created.sender
    /\ arg.room_id # created.room_id
    /\ user_id = created.sender
    /\ room_id = created.room_id

\* C13: both updates are idempotent in their side effects: from every
\* reachable entity and for every input, applying update_member(e) twice
\* leaves the entity that applying it once leaves, and likewise
\* update_power(c), power_level and power_level_norm included.
C13_UpdatesIdempotent ==
    /\ \A e \in MemberEvents :
           UpdateMember(UpdateMember(Self, e), e) = UpdateMember(Self, e)
    /\ \A c \in PowerLevelsEvents :
           UpdatePower(UpdatePower(Self, c), c) = UpdatePower(Self, c)

\* C13 witness: an entity holding a normalised power older than its power
\* (100 cannot come from power 0), which some membership event and some
\* configuration change when applied once.
C13_Witness ==
    /\ power_level = Some(0)
    /\ power_level_norm = Some(100)
    /\ \E e \in MemberEvents : UpdateMember(Self, e) # Self
    /\ \E c \in PowerLevelsEvents :
           /\ MaxPower(c) <= 0
           /\ UpdatePower(Self, c) # Self
           /\ UpdatePower(Self, c).power_level_norm = Some(100)

\* C14: events is never empty, its first entry is the constructing event,
\* and no update removes or rewrites an entry it held before the call.
C14_EventsNeverShrink ==
    /\ Len(events) >= 1
    /\ events[1] = [variant |-> "RoomMember", event |-> created]
    /\ op # "new" =>
           /\ Len(events) >= Len(old.events)
           /\ SubSeq(events, 1, Len(old.events)) = old.events

\* C14 witness: after a power-levels event and a membership event the
\* constructing event is still the first entry.
C14_Witness ==
    /\ Len(applied) = 2
    /\ applied[1].variant = "RoomPowerLevels"
    /\ applied[2].variant = "RoomMember"
    /\ membership # created.content.membership
    /\ power_level # None
    /\ events[1].event = created

\* C15: update_member leaves typing, user, power_level, power_level_norm and
\* name unchanged; update_power leaves typing, user, membership and name
\* unchanged; typing is never set after construction.
C15_Frames ==
    /\ op = "update_member" =>
           /\ typing = old.typing
           /\ user = old.user
           /\ power_level = old.power_level
           /\ power_level_norm = old.power_level_norm
           /\ name = old.name
    /\ op = "update_power" =>
           /\ typing = old.typing
           /\ user = old.user
           /\ membership = old.membership
           /\ name = old.name
    /\ typing = None

\* C15 witness: a membership event with another state key changed the
\* membership of an entity that has a power level and a normalised power.
C15_Witness ==
    /\ op = "update_member"
    /\ arg.state_key # old.name
    /\ membership # old.membership
    /\ old.power_level # None
    /\ old.power_level_norm # None
    /\ power_level = old.power_level
    /\ name = old.name

\* C16: as implemented, both updates return the equality of the old and the
\* new value taken before the assignment: update_member returns true exactly
\* when the declared state equals the prior membership, update_power exactly
\* when the resolved power equals the prior power_level, hence false on the
\* first update_power after construction.
C16_ReturnsEquality ==
    /\ op = "update_member" =>
           ret = Some(old.membership = arg.content.membership)
    /\ op = "update_power" =>
           /\ ret = Some(old.power_level
                            = Some(ConfiguredPower(arg.content, user_id)))
           /\ PowerIdx = {Len(applied)} => ret = Some(FALSE)

\* C16 witness: a membership event repeating the held state returned true
\* after a first update_power.
C16_Witness ==
    /\ op = "update_member"
    /\ Len(applied) = 2
    /\ applied[1].variant = "RoomPowerLevels"
    /\ old.membership = arg.content.membership
    /\ ret = Some(TRUE)

\* C17: after every update_power the power_level just assigned is at most
\* the largest power of that configuration, so a power_level_norm, a stale
\* one included, is never above 100.
C17_NormAtMost100 ==
    /\ op = "update_power" =>
           power_level[1] <= LargestPower(arg.content)
    /\ power_level_norm # None => power_level_norm[1] <= 100

\* C17 witness: a normalised power of 100 kept across a configuration
\* without a positive power.
C17_Witness ==
    /\ op = "update_power"
    /\ LargestPower(arg.content) <= 0
    /\ power_level[1] = LargestPower(arg.content)
    /\ old.power_level_norm = Some(100)
    /\ power_level_norm = Some(100)

\* C18: no operation reaches an error state: update_power divides only when
\* max_power > 0 and unwraps power_level only after assigning it, and
\* RoomMember::new and update_member have no failing path.
C18_NoPanic ==
    /\ ~panicked
    /\ op = "update_power" =>
           /\ power_level # None
           /\ ret # None
           /\ LargestPower(arg.content) = 0 =>
                  power_level_norm = old.power_level_norm
    /\ op = "update_member" => ret # None

\* C18 witness: a configuration whose largest power is zero, applied after
\* one that was normalised, returned without dividing.
C18_Witness ==
    /\ op = "update_power"
    /\ Cardinality(PowerIdx) = 2
    /\ LargestPower(arg.content) = 0
    /\ LargestPower(applied[1].event.content) > 0
    /\ old.power_level_norm # None
    /\ ret # None
    /\ ~panicked

\* C19: membership events and power-levels events commute: from every
\* reachable entity, update_member(e) then update_power(c) leaves the same
\* entity and returns the same two values as update_power(c) then
\* update_member(e).
C19_UpdatesCommute ==
    \A e \in MemberEvents : \A c \in PowerLevelsEvents :
        /\ UpdatePower(UpdateMember(Self, e), c)
               = UpdateMember(UpdatePower(Self, c), e)
        /\ UpdateMemberRet(Self, e) = UpdateMemberRet(UpdatePower(Self, c), e)
        /\ UpdatePowerRet(Self, c) = UpdatePowerRet(UpdateMember(Self, e), c)
        /\ UpdatePowerPanics(Self, c) = UpdatePowerPanics(UpdateMember(Self, e), c)

\* C19 witness: an entity that already has a power level, with a membership
\* event and a configuration that each change it.
C19_Witness ==
    /\ power_level # None
    /\ power_level_norm # None
    /\ membership # created.content.membership
    /\ \E e \in MemberEvents : \E c \in PowerLevelsEvents :
           /\ UpdateMember(Self, e) # Self
           /\ UpdatePower(Self, c).power_level # power_level
           /\ UpdatePower(Self, c).power_level_norm # power_level_norm
           /\ UpdatePower(UpdateMember(Self, e), c) # UpdateMember(Self, e)
           /\ UpdatePower(UpdateMember(Self, e), c) # UpdatePower(Self, c)

====
